---- MODULE Spec2Model ----
(***************************************************************************)
(* Growth Hirings Tracker: the poll cycle of src/main.py                   *)
(* (poll_and_process and its helpers) under the retry loop of              *)
(* src/scheduler.py, together with the three stores it touches: the Slack  *)
(* channel, the checkpoint file and the Notion database.                   *)
(*                                                                         *)
(* A Slack timestamp is a natural number: the message posted k-th has      *)
(* ts = k, so channel[k] is the text of the message with ts = k.  A cursor *)
(* is the text of the checkpoint file: a sequence holding one timestamp,   *)
(* or the empty sequence for the empty string.                             *)
(***************************************************************************)
EXTENDS Integers, Sequences, FiniteSets, TLC

\* ------------------------------------------------------------------ bounds
\* Messages ever posted to the channel.
MaxMsgs == 3
\* Stands for limit=50 of the conversations.history request (main.py:281),
\* scaled down so that the channel can hold more messages than one page.
PageLimit == 2
\* Records the database is let to hold.
MaxRecs == 2
\* Messages ever posted to the channel where the liveness of the loop is
\* checked.
MaxFairMsgs == 1

\* -------------------------------------------------------------- characters
\* A text (a message, a page, a url) is a sequence of characters.  "h" stands
\* for the scheme of a url, "http://" or "https://", which the patterns of the
\* code match as a whole; "j" and "k" stand for two of JOB_BOARD_PATTERNS, "p"
\* and "q" for two post paths of linkedin.com, "A" for the word "activity";
\* "x" is any other character of a word or of a url.
Scheme == "h"
JobBoardChars == {"j", "k"}
PostChars == {"p", "q"}

\* Two job-board urls and two LinkedIn post urls.
J1 == <<Scheme, "j">>
J2 == <<Scheme, "k">>
P1 == <<Scheme, "p">>
P2 == <<Scheme, "q">>

\* No url: None or "" (main.py:215,309,320,357 test a url for truth).
NoUrl == <<>>

\* The links the database can hold a record for; ApplyLinks are the links the
\* LLM can report as link_to_apply.
ApplyLinks == {J1}
Links == {J1, J2, P1}

\* Slack's link syntax for a url.
Bracket(u) == <<"<">> \o u \o <<">">>

\* The message texts posted to the channel: a word, and the link of a
\* LinkedIn post (whose page can embed job-board links).
Texts ==
    { <<"x">>, Bracket(P1) }

\* What a fetch of the LinkedIn post can return: "" (the fetch failed), a
\* page with no link, a page embedding the post's own url and job-board links,
\* one of them twice and one at the end of a sentence.
PostPages ==
    { <<>>,
      <<"x">>,
      P1 \o <<" ">> \o J2 \o <<".", " ">> \o J1 \o <<" ">> \o J2 }

\* ----------------------------------------------------------------- helpers
\* main.py:40-45
get_last_processed_ts(f) ==
    IF f.exists THEN f.text ELSE <<0>>

\* The first position from p on where the text holds a character of stop, or
\* the position after the text: where a run [^stop]* that starts at p ends.
RunEnd(text, p, stop) ==
    LET stops == { e \in p..Len(text) : text[e] \in stop }
    IN  IF stops = {} THEN Len(text) + 1
        ELSE CHOOSE e \in stops : \A f \in stops : e <= f

\* main.py:57: re.findall of <(https?://[^>|]+)(?:\|[^>]*)?> from position p
\* on: the matches from left to right, none overlapping another, each giving
\* its group.  e is where the greedy [^>|]+ ends and close where the ">" has to
\* be; a shorter run would be followed by a character that is neither.
RECURSIVE slack_urls_from(_, _)
slack_urls_from(text, p) ==
    IF p + 1 > Len(text) THEN <<>>
    ELSE LET e == RunEnd(text, p + 2, {">", "|"})
             close == IF e <= Len(text) /\ text[e] = "|"
                      THEN RunEnd(text, e + 1, {">"})
                      ELSE e
         IN  IF text[p] = "<" /\ text[p + 1] = Scheme /\ e > p + 2 /\ close <= Len(text)
             THEN <<SubSeq(text, p + 1, e - 1)>> \o slack_urls_from(text, close + 1)
             ELSE slack_urls_from(text, p + 1)

\* main.py:61,117: re.findall of https?://[^stop]+ from position p on.
RECURSIVE plain_urls_from(_, _, _)
plain_urls_from(text, p, stop) ==
    IF p + 1 > Len(text) THEN <<>>
    ELSE LET e == RunEnd(text, p + 1, stop)
         IN  IF text[p] = Scheme /\ e > p + 1
             THEN <<SubSeq(text, p, e - 1)>> \o plain_urls_from(text, e, stop)
             ELSE plain_urls_from(text, p + 1, stop)

\* main.py:61: [^\s<>"]
PlainStop == {" ", "<", ">", "\""}

\* main.py:117: [^\s<>"'\\,;)}\]]
PageStop == {" ", "<", ">", "\"", "'", "\\", ",", ";", ")", "}", "]"}

\* extract_urls as it would be if the bare urls were added to the <url> links.
extract_urls_both(text) ==
    slack_urls_from(text, 1) \o plain_urls_from(text, 1, PlainStop)

\* main.py:54-61: the <url> links if there is one, else the bare urls.
extract_urls(text) ==
    LET slack_urls == slack_urls_from(text, 1)
    IN  IF slack_urls # <<>> THEN slack_urls
        ELSE plain_urls_from(text, 1, PlainStop)

\* main.py:313: "linkedin.com" in u and a post, feed or activity path.
IsLinkedInPost(u) == \E n \in DOMAIN u : u[n] \in PostChars

\* main.py:95-111,128: the url holds one of JOB_BOARD_PATTERNS.
IsJobBoard(u) == \E n \in DOMAIN u : u[n] \in JobBoardChars

\* main.py:123: url.rstrip(".")
rstrip(u) ==
    LET ends == { n \in 0..Len(u) : \A k \in (n + 1)..Len(u) : u[k] = "." }
    IN  SubSeq(u, 1, CHOOSE n \in ends : \A m \in ends : n <= m)

\* main.py:119-131: first occurrences, in order.
Dedup(s) ==
    LET F[n \in 0..Len(s)] ==
            IF n = 0 THEN <<>>
            ELSE LET seen == F[n-1]
                 IN  IF \E k \in 1..Len(seen) : seen[k] = s[n]
                     THEN seen
                     ELSE Append(seen, s[n])
    IN  F[Len(s)]

\* extract_job_urls_from_page as it would be without its `seen` set.
extract_job_urls_from_page_all(page_content, source_url) ==
    LET raw_urls == plain_urls_from(page_content, 1, PageStop)
        urls == [n \in 1..Len(raw_urls) |-> rstrip(raw_urls[n])]
    IN  SelectSeq(urls, LAMBDA u : u # source_url /\ IsJobBoard(u))

\* main.py:114-134
extract_job_urls_from_page(page_content, source_url) ==
    LET raw_urls == plain_urls_from(page_content, 1, PageStop)
        urls == [n \in 1..Len(raw_urls) |-> rstrip(raw_urls[n])]
        kept == SelectSeq(urls, LAMBDA u : u # source_url /\ IsJobBoard(u))
    IN  Dedup(kept)

\* ------------------------------------------------------------------- dates
\* A number too large for the model checker's integers is the sequence of its
\* decimal digits, the most significant first.
Digits == {"0", "1", "2", "3", "4", "5", "6", "7", "8", "9"}
DigitVal ==
    ("0" :> 0) @@ ("1" :> 1) @@ ("2" :> 2) @@ ("3" :> 3) @@ ("4" :> 4) @@
    ("5" :> 5) @@ ("6" :> 6) @@ ("7" :> 7) @@ ("8" :> 8) @@ ("9" :> 9)

\* main.py:69: x >> 22 is the quotient of x by 2^22.
ShiftBits == 22
ShiftDivisor == 2^ShiftBits

\* main.py:70: milliseconds in a second, seconds in a day.
MsPerSecond == 1000
SecondsPerDay == 86400

\* main.py:70: the day number of 9999-12-31, the last date a datetime holds.
MaxDay == 2932896

\* The quotient of the number num by d, digit by digit (long division).
Quotient(num, d) ==
    LET R[n \in 0..Len(num)] ==
            IF n = 0 THEN 0 ELSE (R[n-1] * 10 + num[n]) % d
    IN  [n \in 1..Len(num) |-> (R[n-1] * 10 + num[n]) \div d]

\* The value of the number num when it is at most cap, else a value above cap.
ValueUpTo(num, cap) ==
    LET V[n \in 0..Len(num)] ==
            IF n = 0 THEN 0
            ELSE LET v == V[n-1]
                 IN  IF v > cap THEN v ELSE v * 10 + num[n]
    IN  V[Len(num)]

\* main.py:70-71: the date <<year, month, day>> of the day that is `days` days
\* after 1970-01-01, as datetime computes it from the count of days (whole
\* cycles of 400 years, then the year and the month within the cycle).
civil_from_days(days) ==
    LET z == days + 719468
        era == z \div 146097
        doe == z - era * 146097
        yoe == (doe - doe \div 1460 + doe \div 36524 - doe \div 146096) \div 365
        doy == doe - (365 * yoe + yoe \div 4 - yoe \div 100)
        mp == (5 * doy + 2) \div 153
        d == doy - (153 * mp + 2) \div 5 + 1
        m == IF mp < 10 THEN mp + 3 ELSE mp - 9
        y == yoe + era * 400 + (IF m <= 2 THEN 1 ELSE 0)
    IN  <<y, m, d>>

\* main.py:66: re.search(r"activity[:-](\d+)", url): the digits of the first
\* match, <<>> when there is none.
activity_id_of(url) ==
    LET starts == { p \in 1..(Len(url) - 2) :
                      /\ url[p] = "A"
                      /\ url[p + 1] \in {":", "-"}
                      /\ url[p + 2] \in Digits }
        p == CHOOSE q \in starts : \A r \in starts : q <= r
        others == { url[n] : n \in DOMAIN url } \ Digits
    IN  IF starts = {} THEN <<>>
        ELSE SubSeq(url, p + 2, RunEnd(url, p + 2, others) - 1)

\* main.py:64-72: what decode_linkedin_activity_date returns, or that it
\* raises: datetime.fromtimestamp raises ValueError for a date after year 9999
\* (or OverflowError), and nothing in the function catches it.
decode_linkedin_activity_date(url) ==
    LET match == activity_id_of(url)
        activity_id == [n \in 1..Len(match) |-> DigitVal[match[n]]]
        timestamp_ms == Quotient(activity_id, ShiftDivisor)
        seconds == Quotient(timestamp_ms, MsPerSecond)
        days == ValueUpTo(Quotient(seconds, SecondsPerDay), MaxDay)
    IN  IF match = <<>> THEN [raises |-> FALSE, ret |-> <<>>]
        ELSE IF days > MaxDay THEN [raises |-> TRUE, ret |-> <<>>]
        ELSE [raises |-> FALSE, ret |-> civil_from_days(days)]

\* main.py:309-316: the post url is the last one of post shape.
linkedin_post_url_of(urls) ==
    LET posts == SelectSeq(urls, IsLinkedInPost)
    IN  IF posts = <<>> THEN NoUrl ELSE posts[Len(posts)]

\* main.py:310-316
direct_job_urls(urls) ==
    SelectSeq(urls, LAMBDA u : ~IsLinkedInPost(u))

\* main.py:324-332: the job urls of a message with urls, given the page fetched
\* for its post url.
job_urls_of(urls, linkedin_post_content) ==
    LET post == linkedin_post_url_of(urls)
        direct == direct_job_urls(urls)
        embedded == extract_job_urls_from_page(linkedin_post_content, post)
    IN  IF direct # <<>> \/ post = NoUrl THEN direct
        ELSE IF embedded # <<>> THEN embedded
        ELSE <<post>>

\* main.py:295: ascending by timestamp (an insertion sort).
SortByTs(s) ==
    LET Ins(srt, x) ==
            LET lo == SelectSeq(srt, LAMBDA y : y <= x)
                hi == SelectSeq(srt, LAMBDA y : y > x)
            IN  lo \o <<x>> \o hi
        F[n \in 0..Len(s)] == IF n = 0 THEN <<>> ELSE Ins(F[n-1], s[n])
    IN  F[Len(s)]

\* The sequences listing each member of the set S once.
Orderings(S) ==
    { s \in [1..Cardinality(S) -> S] : \A a \in S : \E n \in DOMAIN s : s[n] = a }

\* main.py:280: the number Slack reads in the cursor; "" reads as no bound.
OldestOf(cursor) == IF cursor = <<>> THEN 0 ELSE cursor[1]

\* main.py:275-283: conversations.history answers with the newest `limit`
\* messages that are newer than `oldest`.
History(chan, cursor) ==
    LET newer == { t \in 1..Len(chan) : t > OldestOf(cursor) }
    IN  { t \in newer : Cardinality({ v \in newer : v > t }) < PageLimit }

\* main.py:137-192: what the LLM call does, and the JSON it answers with.  A
\* reply is an API error, text that is no JSON, or a JSON value: null (or any
\* other falsy value), a non-empty list, or an object with link_to_apply.
Reply(t, l) == [t |-> t, link_to_apply |-> l]
LlmReplies ==
    { Reply("raise", NoUrl), Reply("text", NoUrl), Reply("null", NoUrl),
      Reply("list", NoUrl), Reply("dict", NoUrl) }
    \cup { Reply("dict", l) : l \in ApplyLinks }
None == Reply("None", NoUrl)

\* extract_job_details as it would be if a reply it cannot parse were taken for
\* an object with no field.
extract_job_details_lenient(page_content, linkedin_post_content, reply) ==
    IF page_content = <<>> /\ linkedin_post_content = <<>> THEN None
    ELSE IF reply.t \in {"raise", "text"} THEN Reply("dict", NoUrl)
    ELSE reply

\* main.py:139-140,179-192: None without a call when there is nothing to read,
\* None when the call raises or json.loads does, else the parsed value.
extract_job_details(page_content, linkedin_post_content, reply) ==
    IF page_content = <<>> /\ linkedin_post_content = <<>> THEN None
    ELSE IF reply.t \in {"raise", "text"} THEN None
    ELSE reply

\* main.py:355: `if details`.
Truthy(details) == details.t \in {"list", "dict"}

\* main.py:350-352: the context handed to the LLM; never empty for a message
\* that has a url, as the message text is part of it.
combined_post_ctx(text, job_url, post, linkedin_post_content) ==
    LET post_ctx == IF job_url # post THEN linkedin_post_content ELSE <<>>
        slack_ctx == IF text # <<>> THEN <<"x">> ELSE <<>>
    IN  slack_ctx \o post_ctx

\* is_duplicate as it would be if it never found a record.
is_duplicate_never(d, link_to_apply, query) ==
    FALSE

\* main.py:195-208: a failed query reads as "no duplicate".
is_duplicate(d, link_to_apply, query) ==
    IF query = "ok" THEN d[link_to_apply] > 0 ELSE FALSE

\* create_notion_entry as it would be without its dedup check.
create_notion_entry_unqueried(d, link, query, create) ==
    IF create = "ok"
    THEN [db |-> [d EXCEPT ![link] = @ + 1], ret |-> TRUE,
          queried |-> FALSE, issued |-> TRUE]
    ELSE [db |-> d, ret |-> FALSE, queried |-> FALSE, issued |-> TRUE]

\* create_notion_entry as it would be if it went on to pages.create whatever
\* is_duplicate answered.
create_notion_entry_unchecked(d, link, query, create) ==
    IF create = "ok"
    THEN [db |-> [d EXCEPT ![link] = @ + 1], ret |-> TRUE,
          queried |-> link # NoUrl, issued |-> TRUE]
    ELSE [db |-> d, ret |-> FALSE, queried |-> link # NoUrl, issued |-> TRUE]

\* create_notion_entry as it would be if it answered True whatever pages.create
\* did.
create_notion_entry_optimistic(d, link, query, create) ==
    IF link # NoUrl /\ is_duplicate(d, link, query)
    THEN [db |-> d, ret |-> FALSE, queried |-> TRUE, issued |-> FALSE]
    ELSE IF create = "ok"
         THEN [db |-> [d EXCEPT ![link] = @ + 1], ret |-> TRUE,
               queried |-> link # NoUrl, issued |-> TRUE]
         ELSE [db |-> d, ret |-> TRUE, queried |-> link # NoUrl, issued |-> TRUE]

\* main.py:211-253: the database after the call, what the call returns, and
\* whether databases.query and pages.create were called: the query is made
\* for a link that is not empty, the create unless a record was found.
create_notion_entry(d, link, query, create) ==
    IF link # NoUrl /\ is_duplicate(d, link, query)
    THEN [db |-> d, ret |-> FALSE, queried |-> TRUE, issued |-> FALSE]
    ELSE IF create = "ok"
         THEN [db |-> [d EXCEPT ![link] = @ + 1], ret |-> TRUE,
               queried |-> link # NoUrl, issued |-> TRUE]
         ELSE [db |-> d, ret |-> FALSE, queried |-> link # NoUrl, issued |-> TRUE]

\* The number of records of the database.
Records(d) ==
    LET Sum[S \in SUBSET Links] ==
            IF S = {} THEN 0
            ELSE LET l == CHOOSE x \in S : TRUE IN d[l] + Sum[S \ {l}]
    IN  Sum[Links]

\* ------------------------------------------------------------------- state
VARIABLES
    channel,      \* the Slack channel: channel[t] is the text of message t
    file,         \* last_processed_ts.txt
    db,           \* the Notion database: records per "Link to Apply"
    pc,           \* where the process is
    last_ts,      \* poll_and_process: the cursor read
    latest_ts,    \* poll_and_process: the cursor to save
    messages,     \* poll_and_process: the sorted batch (timestamps)
    i,            \* poll_and_process: the message of the batch being handled
    urls,         \* poll_and_process: the urls of that message
    linkedin_post_url, \* poll_and_process: its post url
    source_url,   \* poll_and_process: the url its records name as source
    linkedin_date, \* poll_and_process: the date decoded from its post url
    job_urls,     \* poll_and_process: the job urls left of that message
    linkedin_post_content, \* poll_and_process: the page of its post url
    examined,     \* history: the messages some cycle has examined
    start_file,   \* history: the checkpoint file when the cycle started
    event         \* history: what the last step of the process did

\* What the loop body holds of the message it handles.
of_message == <<urls, linkedin_post_url, source_url, linkedin_date, job_urls,
                linkedin_post_content>>
locals == <<last_ts, latest_ts, messages, i, of_message>>
stores == <<channel, file, db>>
vars == <<channel, file, db, pc, last_ts, latest_ts, messages, i, urls,
          linkedin_post_url, source_url, linkedin_date, job_urls,
          linkedin_post_content, examined, start_file, event>>

\* No date: None.
NoDate == <<>>

\* No message is being handled.
NoMessage ==
    /\ urls' = <<>>
    /\ linkedin_post_url' = NoUrl
    /\ source_url' = NoUrl
    /\ linkedin_date' = NoDate
    /\ job_urls' = <<>>
    /\ linkedin_post_content' = <<>>

NoFile == [exists |-> FALSE, text |-> <<>>]

\* What a step did: op names the step; for a step of the job-url loop, ts is
\* the message, link the resolved apply link, pre the records the database
\* held with it, query and create the outcome of the two database calls
\* ("none": not called), ret what create_notion_entry returned, reaction the
\* reaction asked for and ack what became of the reactions.add call, llm what
\* the LLM call did.
NoEvent ==
    [op |-> "none", ts |-> 0, link |-> NoUrl, pre |-> 0, query |-> "none",
     create |-> "none", ret |-> FALSE, reaction |-> "none", ack |-> "none",
     llm |-> "none"]
Ev(op) == [NoEvent EXCEPT !.op = op]

Init ==
    /\ channel = <<>>
    /\ file = NoFile
    /\ db = [l \in Links |-> 0]
    /\ pc = "call"
    /\ last_ts = <<0>>
    /\ latest_ts = <<0>>
    /\ messages = <<>>
    /\ i = 1
    /\ urls = <<>>
    /\ linkedin_post_url = NoUrl
    /\ source_url = NoUrl
    /\ linkedin_date = NoDate
    /\ job_urls = <<>>
    /\ linkedin_post_content = <<>>
    /\ examined = {}
    /\ start_file = NoFile
    /\ event = NoEvent

\* --------------------------------------------------------------- scheduler
\* The loop as it would be without its try/except: the exception ends it.
SchedulerExits ==
    pc' = "exited"

\* scheduler.py:18-22: whatever poll_and_process raises is logged, and the
\* loop goes on to its sleep.
SchedulerCatch ==
    pc' = "sleep"

\* scheduler.py:19,22: poll_and_process returned.
SchedulerReturn ==
    pc' = "sleep"

\* scheduler.py:23,17: the sleep ends and the loop calls poll_and_process;
\* nothing is left of the frame of the last call.
Sleep ==
    /\ pc = "sleep"
    /\ pc' = "call"
    /\ messages' = <<>>
    /\ i' = 1
    /\ NoMessage
    /\ last_ts' = <<0>>
    /\ latest_ts' = <<0>>
    /\ start_file' = file
    /\ event' = Ev("slept")
    /\ UNCHANGED <<stores, examined>>

\* ------------------------------------------------------- poll_and_process
\* main.py:271,296: the cycle starts with the cursor of the checkpoint file.
StartCycle ==
    /\ pc = "call"
    /\ last_ts' = get_last_processed_ts(file)
    /\ latest_ts' = get_last_processed_ts(file)
    /\ start_file' = file
    /\ i' = 1
    /\ NoMessage

\* main.py:275-284: requests.get or resp.json() raises.
PollRaises ==
    /\ StartCycle
    /\ event' = Ev("poll_raised")
    /\ SchedulerCatch
    /\ UNCHANGED <<stores, messages, examined>>

\* main.py:285-287: Slack answers with ok false.
PollNotOk ==
    /\ StartCycle
    /\ event' = Ev("not_ok")
    /\ SchedulerReturn
    /\ UNCHANGED <<stores, messages, examined>>

\* The empty batch as it would be handled if the cycle saved its cursor all
\* the same.
PollEmptySaves ==
    /\ StartCycle
    /\ History(channel, get_last_processed_ts(file)) = {}
    /\ event' = Ev("empty")
    /\ file' = [exists |-> TRUE, text |-> get_last_processed_ts(file)]
    /\ SchedulerReturn
    /\ UNCHANGED <<channel, db, messages, examined>>

\* main.py:289-292: Slack answers ok with no message.
PollEmpty ==
    /\ StartCycle
    /\ History(channel, get_last_processed_ts(file)) = {}
    /\ event' = Ev("empty")
    /\ SchedulerReturn
    /\ UNCHANGED <<stores, messages, examined>>

\* main.py:289-296: Slack answers ok with a batch, in some order; the batch
\* is sorted and the loop starts.
PollBatch ==
    /\ StartCycle
    /\ History(channel, get_last_processed_ts(file)) # {}
    /\ \E delivered \in Orderings(History(channel, get_last_processed_ts(file))) :
          messages' = SortByTs(delivered)
    /\ event' = Ev("batch")
    /\ pc' = "loop"
    /\ UNCHANGED <<stores, examined>>

\* main.py:298,376: after message i the loop goes on, or ends at the save.
AfterMessage ==
    /\ i' = i + 1
    /\ NoMessage
    /\ pc' = IF i + 1 > Len(messages) THEN "save" ELSE "loop"

\* main.py:298-304: a message with no url is skipped by `continue`.
SkipMessage ==
    /\ pc = "loop"
    /\ extract_urls(channel[messages[i]]) = <<>>
    /\ examined' = examined \cup {messages[i]}
    /\ event' = [Ev("skip") EXCEPT !.ts = messages[i]]
    /\ AfterMessage
    /\ UNCHANGED <<stores, last_ts, latest_ts, messages, start_file>>

\* main.py:298-343: a message with urls: the urls are sorted into the post url
\* and the job urls, the post is fetched, and its page scanned when the
\* message has no job url of its own; the date of the post is decoded from its
\* url, and an exception of the decoding ends the cycle.
StartMessage ==
    /\ pc = "loop"
    /\ LET found == extract_urls(channel[messages[i]])
           post == linkedin_post_url_of(found)
           decoded == decode_linkedin_activity_date(post)
       IN  /\ found # <<>>
           /\ urls' = found
           /\ linkedin_post_url' = post
           /\ source_url' = IF post # NoUrl THEN post ELSE found[1]
           /\ \E page \in PostPages :
                 /\ post = NoUrl => page = <<>>
                 /\ linkedin_post_content' = page
                 /\ job_urls' = job_urls_of(found, page)
           /\ IF post # NoUrl /\ decoded.raises
              THEN /\ linkedin_date' = NoDate
                   /\ event' = [Ev("date_raised") EXCEPT !.ts = messages[i]]
                   /\ SchedulerCatch
              ELSE /\ linkedin_date' = IF post # NoUrl THEN decoded.ret ELSE NoDate
                   /\ event' = [Ev("message") EXCEPT !.ts = messages[i]]
                   /\ pc' = "job"
    /\ examined' = examined \cup {messages[i]}
    /\ UNCHANGED <<stores, last_ts, latest_ts, messages, i, start_file>>

\* main.py:347: what the fetch of a job url can return: "" or a page.
Contents == {<<>>, <<"x">>}

\* main.py:347-353: the details of the job url at the head of job_urls, for
\* a page fetched and a reply of the LLM.
DetailsOf(content, reply) ==
    LET text == channel[messages[i]]
        ctx == combined_post_ctx(text, Head(job_urls), linkedin_post_url,
                                 linkedin_post_content)
    IN  extract_job_details(content, ctx, reply)

\* main.py:345,374: after a job url the inner loop goes on, or the message
\* is over and its timestamp becomes the cursor to save.
AfterJobUrl ==
    IF Len(job_urls) = 1
    THEN /\ latest_ts' = <<messages[i]>>
         /\ AfterMessage
    ELSE /\ job_urls' = Tail(job_urls)
         /\ UNCHANGED <<latest_ts, i, pc, urls, linkedin_post_url, source_url,
                        linkedin_date, linkedin_post_content>>

\* post_slack_reaction as it would be without its try/except.
post_slack_reaction_unguarded(ack) ==
    IF ack = "raise" THEN "raised" ELSE "returned"

\* main.py:256-265: how post_slack_reaction ends when requests.post returns
\* (ack = "ok") and when it raises (ack = "raise"): the exception is passed
\* over, and the response is not looked at.
post_slack_reaction(ack) ==
    "returned"

\* main.py:368-374: the reaction call, if there is one, and what follows it.
AfterReaction(ack) ==
    IF ack # "none" /\ post_slack_reaction(ack) = "raised"
    THEN /\ SchedulerCatch
         /\ UNCHANGED <<latest_ts, i, of_message>>
    ELSE AfterJobUrl

\* main.py:345-353,370-374: the details of a job url are absent or falsy: a
\* "warning" reaction is posted.
JobUrlNoDetails ==
    /\ pc = "job"
    /\ \E reply \in LlmReplies, ack \in {"ok", "raise"} :
          /\ \E content \in Contents : ~Truthy(DetailsOf(content, reply))
          /\ event' = [Ev("no_details") EXCEPT !.ts = messages[i],
                                               !.reaction = "warning",
                                               !.ack = ack,
                                               !.llm = reply.t]
          /\ AfterReaction(ack)
    /\ UNCHANGED <<stores, last_ts, messages, examined, start_file>>

\* main.py:355-357: the LLM answered with JSON that is truthy and no object:
\* details.get raises AttributeError, which nothing in the cycle catches.
JobUrlNotADict ==
    /\ pc = "job"
    /\ \E reply \in LlmReplies :
          /\ \E content \in Contents :
                /\ Truthy(DetailsOf(content, reply))
                /\ DetailsOf(content, reply).t # "dict"
          /\ event' = [Ev("not_a_dict") EXCEPT !.ts = messages[i], !.llm = reply.t]
    /\ SchedulerCatch
    /\ UNCHANGED <<stores, locals, examined, start_file>>

\* main.py:355-369,374: the details are an object: the apply link defaults to
\* the job url, create_notion_entry runs, and a created record is marked with
\* a reaction.
JobUrlDetails ==
    /\ pc = "job"
    /\ \E reply \in LlmReplies, query \in {"ok", "raise"}, create \in {"ok", "raise"} :
       \E details \in { DetailsOf(content, reply) : content \in Contents } :
          LET job_url == Head(job_urls)
              link == IF details.link_to_apply = NoUrl THEN job_url
                      ELSE details.link_to_apply
              res == create_notion_entry(db, link, query, create)
          IN  /\ details.t = "dict"
              /\ Records(res.db) <= MaxRecs
              /\ res.issued \/ create = "ok"
              /\ db' = res.db
              /\ \E ack \in IF res.ret THEN {"ok", "raise"} ELSE {"none"} :
                    /\ event' = [op |-> "entry", ts |-> messages[i], link |-> link,
                                 pre |-> db[link],
                                 query |-> IF res.queried THEN query ELSE "none",
                                 create |-> IF res.issued THEN create ELSE "none",
                                 ret |-> res.ret,
                                 reaction |-> IF res.ret THEN "white_check_mark"
                                              ELSE "none",
                                 ack |-> ack,
                                 llm |-> reply.t]
                    /\ AfterReaction(ack)
    /\ UNCHANGED <<channel, file, last_ts, messages, examined, start_file>>

\* main.py:376,50: open(LAST_TS_FILE, "w") raises; the file is as it was.
SaveOpenRaises ==
    /\ pc = "save"
    /\ event' = Ev("open_raised")
    /\ SchedulerCatch
    /\ UNCHANGED <<stores, locals, examined, start_file>>

\* main.py:376,50: open(LAST_TS_FILE, "w") creates the file or empties it.
SaveOpen ==
    /\ pc = "save"
    /\ file' = [exists |-> TRUE, text |-> <<>>]
    /\ event' = Ev("opened")
    /\ pc' = "write"
    /\ UNCHANGED <<channel, db, locals, examined, start_file>>

\* main.py:51: the write (or the flush on close) raises; the file stays empty.
SaveWriteRaises ==
    /\ pc = "write"
    /\ event' = Ev("write_raised")
    /\ SchedulerCatch
    /\ UNCHANGED <<stores, locals, examined, start_file>>

\* main.py:51,377: the cursor is written and the cycle returns.
SaveWrite ==
    /\ pc = "write"
    /\ file' = [exists |-> TRUE, text |-> latest_ts]
    /\ event' = Ev("saved")
    /\ SchedulerReturn
    /\ UNCHANGED <<channel, db, locals, examined, start_file>>

\* ------------------------------------------------------------- environment
\* Somebody posts a message to the channel.  A message posted while a cycle
\* runs is seen by the next fetch only, so messages are posted between cycles.
Post(max) ==
    /\ pc = "call"
    /\ Len(channel) < max
    /\ \E text \in Texts : channel' = Append(channel, text)
    /\ UNCHANGED <<file, db, pc, locals, examined, start_file, event>>

PostMessage ==
    Post(MaxMsgs)

PostMessageFair ==
    Post(MaxFairMsgs)

\* The process is killed in the middle of a cycle and started again
\* (scheduler.py:15-19): what it held in memory is gone, the stores stay.
Crash ==
    /\ pc \in {"loop", "job", "save", "write"}
    /\ pc' = "call"
    /\ event' = Ev("crashed")
    /\ messages' = <<>>
    /\ i' = 1
    /\ NoMessage
    /\ UNCHANGED <<stores, last_ts, latest_ts, examined, start_file>>

Step ==
    \/ PollRaises
    \/ PollNotOk
    \/ PollEmpty
    \/ PollBatch
    \/ SkipMessage
    \/ StartMessage
    \/ JobUrlNoDetails
    \/ JobUrlNotADict
    \/ JobUrlDetails
    \/ SaveOpenRaises
    \/ SaveOpen
    \/ SaveWriteRaises
    \/ SaveWrite
    \/ Sleep

Next ==
    \/ Step
    \/ PostMessage
    \/ Crash

Spec == Init /\ [][Next]_vars

\* The process is sequential and every call it makes returns or raises in the
\* end, so the step it is at is taken in the end.
FairNext ==
    \/ Step
    \/ PostMessageFair
    \/ Crash

FairSpec == Init /\ [][FairNext]_vars /\ WF_vars(Step)

\* ----------------------------------------------------- one message, any text
\* The url stage of the loop body (main.py:298-343) on a batch of one message,
\* for the texts of three families: every well-formed text of a small
\* alphabet, the messages that link up to MaxUrls urls, and the messages that
\* link a post with an activity identifier.

\* Characters of a message text.
MaxTextLen == 6
\* Urls linked by a message.
MaxUrls == 3

TextChars == {"<", ">", "|", " ", "\"", Scheme, "x"}

\* Slack escapes the "<" and ">" a user types, so those of a message text are
\* the brackets of its links: they come in pairs and none is inside a pair.
WellFormed(text) ==
    /\ \A p \in DOMAIN text : text[p] = "<" =>
          \E c \in (p + 1)..Len(text) :
              /\ text[c] = ">"
              /\ \A k \in (p + 1)..(c - 1) : text[k] \notin {"<", ">"}
    /\ \A c \in DOMAIN text : text[c] = ">" =>
          \E p \in 1..(c - 1) :
              /\ text[p] = "<"
              /\ \A k \in (p + 1)..(c - 1) : text[k] \notin {"<", ">"}

ShortTexts ==
    { text \in UNION { [1..n -> TextChars] : n \in 0..MaxTextLen } : WellFormed(text) }

\* The links of a message, one after the other.
RECURSIVE Linking(_)
Linking(us) ==
    IF us = <<>> THEN <<>>
    ELSE IF Len(us) = 1 THEN Bracket(us[1])
    ELSE Bracket(us[1]) \o <<" ">> \o Linking(Tail(us))

LinkTexts ==
    { Linking(us) : us \in UNION { [1..n -> {J1, J2, P1, P2}] : n \in 1..MaxUrls } }

\* The decimal digits of num * k + a.
MulAdd(num, k, a) ==
    LET n == Len(num)
        C[j \in 0..n] ==
            IF j = 0 THEN a ELSE (num[n - j + 1] * k + C[j-1]) \div 10
    IN  [m \in 1..n |-> (num[m] * k + C[n - m]) % 10]

\* The digits of a natural number, in a field of twenty-five.
Padded(v) ==
    LET D[n \in 0..25] == IF n = 0 THEN v ELSE D[n-1] \div 10
    IN  [m \in 1..25 |-> D[25 - m] % 10]

\* A number without its leading zeros, as text.
Decimal(num) ==
    LET nz == { n \in DOMAIN num : num[n] # 0 }
        first == IF nz = {} THEN Len(num) ELSE CHOOSE n \in nz : \A m \in nz : n <= m
        Char(v) == CHOOSE c \in Digits : DigitVal[c] = v
    IN  [n \in 1..(Len(num) - first + 1) |-> Char(num[first + n - 1])]

\* The activity identifier LinkedIn makes for a post: the milliseconds since
\* 1970-01-01 of its creation (here day `day`, millisecond `ms` of the day)
\* above twenty-two low bits.
ActivityId(day, ms, low) ==
    Decimal(MulAdd(MulAdd(Padded(day), SecondsPerDay * MsPerSecond, ms),
                   ShiftDivisor, low))

\* The days the posts are made on: 1970-01-01 and the day after, 2000-02-29
\* and the day after, 2023-01-16, 2100-02-28 and the day after, 9999-12-31
\* and the day after.
Days == {0, 1, 11016, 11017, 19373, 47540, 47541, MaxDay, MaxDay + 1}

\* A post url with the identifier of a post made on day `day`.
ActivityUrl(day, ms, low, sep) ==
    P1 \o <<"A", sep>> \o ActivityId(day, ms, low)

ActivityTexts ==
    { Bracket(ActivityUrl(day, ms, low, sep)) :
        day \in Days, ms \in {0, SecondsPerDay * MsPerSecond - 1},
        low \in {0, ShiftDivisor - 1}, sep \in {":", "-"} }
    \cup { Bracket(P1 \o <<"A">>), Bracket(P1 \o <<"A", "-", "x">>),
           Bracket(P1 \o <<"A", "x", "1">>) }

MessageTexts == ShortTexts \cup LinkTexts \cup ActivityTexts

\* main.py:289-298: the loop starts on a batch of one message.
MsgInit ==
    /\ channel \in { <<text>> : text \in MessageTexts }
    /\ file = NoFile
    /\ db = [l \in Links |-> 0]
    /\ pc = "loop"
    /\ last_ts = <<0>>
    /\ latest_ts = <<0>>
    /\ messages = <<1>>
    /\ i = 1
    /\ urls = <<>>
    /\ linkedin_post_url = NoUrl
    /\ source_url = NoUrl
    /\ linkedin_date = NoDate
    /\ job_urls = <<>>
    /\ linkedin_post_content = <<>>
    /\ examined = {}
    /\ start_file = NoFile
    /\ event = Ev("batch")

MsgNext ==
    \/ SkipMessage
    \/ StartMessage

MsgSpec == MsgInit /\ [][MsgNext]_vars

\* ------------------------------------------------------------------ claims
\* The cursor a later get_last_processed_ts would read.
Persisted == get_last_processed_ts(file)

\* The steps that end a cycle with an exception.
RaisedOps ==
    {"poll_raised", "date_raised", "not_a_dict", "open_raised", "write_raised"}

\* C1 as stated: the database never holds two records with the same
\* apply-link, whatever the outcomes of the calls.
C1_AtMostOneRecordPerLink ==
    \A l \in Links : db[l] <= 1

\* C1 as amended: a record with a link that has a record already is created
\* only by a create_notion_entry whose existence query for that link failed.
C1_AtMostOneRecordUnlessQueryFailed ==
    [][\A l \in Links :
          (db'[l] > db[l] /\ db[l] >= 1)
             => (event'.op = "entry" /\ event'.link = l /\ event'.query = "raise")]_vars

\* A link that has its record is met again before any checkpoint was saved
\* (in the same batch, or in the batch fetched again after a restart): the
\* query finds the record and no second one is created.
C1_Witness ==
    /\ event.op = "entry"
    /\ event.pre = 1
    /\ event.create = "none"
    /\ event.query = "ok"
    /\ ~file.exists
    /\ db[event.link] = 1

\* C2: when a cycle has persisted the checkpoint t, the message t and every
\* message between the cycle's starting cursor and t have been examined.
C2_CheckpointCoversEarlierMessages ==
    (pc = "sleep" /\ event.op = "saved") =>
        \A t \in 1..Len(channel) :
            (OldestOf(last_ts) < t /\ t <= OldestOf(Persisted)) => t \in examined

\* C3: after a cycle that fetched a batch and ran to completion, the
\* persisted checkpoint is the timestamp of the last message of the batch.
C3_CheckpointIsLastOfBatch ==
    (pc = "sleep" /\ event.op = "saved") =>
        Persisted = <<messages[Len(messages)]>>

\* C4: the cursor saved by a cycle that ran to completion excludes every
\* message of its batch: none of them is newer than it, so that a source
\* asked for the messages newer than the cursor returns none of them again.
C4_NoMessageFetchedAgain ==
    (pc = "sleep" /\ event.op = "saved") =>
        \A n \in 1..Len(messages) : ~(messages[n] > OldestOf(Persisted))

\* C5: the scheduler's loop never exits: a cycle that ends, by a return or by
\* an exception, ends in the sleep, the sleep is followed by another call
\* of poll_and_process, and cycles start again and again.
C5_LoopNeverExits ==
    /\ [][pc' \in {"call", "loop", "job", "save", "write", "sleep"}]_vars
    /\ [][(pc # "sleep" /\ pc' # pc /\ event'.op \in RaisedOps \cup {"not_ok", "empty", "saved"})
            => pc' = "sleep"]_vars
    /\ [](pc = "sleep" => <>(pc = "call"))
    /\ []<><<StartCycle>>_vars

\* A cycle has ended with an exception and the loop sleeps.
C5_Witness ==
    pc = "sleep" /\ event.op = "not_a_dict"

\* C6: after a cycle in which an exception was raised, the persisted
\* checkpoint is what it was when the cycle started.
C6_ExceptionLeavesCheckpoint ==
    (pc = "sleep" /\ event.op \in RaisedOps) =>
        Persisted = get_last_processed_ts(start_file)

\* C7: once the source call has returned a batch, every step of the
\* processing of a message or a job url leads to the next job url, the next
\* message or the save of the checkpoint (the process being killed aside).
C7_NothingAbortsTheCycle ==
    [][(pc \in {"loop", "job"} /\ event'.op # "crashed")
         => pc' \in {"loop", "job", "save"}]_vars

\* C8: a cycle whose source call answers not-ok or with no message leaves the
\* checkpoint, the database and the set of examined messages as they were,
\* and the cursor the next cycle will read is the one this cycle asked with.
C8_EarlyReturnTouchesNothing ==
    [][(pc = "call" /\ pc' = "sleep" /\ event'.op \in {"not_ok", "empty"})
         => /\ UNCHANGED <<file, db, examined>>
            /\ get_last_processed_ts(file') = last_ts']_vars

\* A cycle has returned early although messages are pending and a checkpoint
\* is persisted.
C8_Witness ==
    /\ pc = "sleep"
    /\ event.op = "not_ok"
    /\ file.exists
    /\ History(channel, Persisted) # {}

\* C9: after the process was killed, the checkpoint read is the one persisted
\* before the cycle or the one the cycle was saving, and "0" without a file.
C9_CrashLeavesOldOrNew ==
    event.op = "crashed" =>
        /\ Persisted = get_last_processed_ts(start_file) \/ Persisted = latest_ts
        /\ ~file.exists => Persisted = <<0>>

\* C10: with the database calls succeeding, the first create_notion_entry for
\* a link creates its one record, and a call that finds that record returns
\* False, issues no create and leaves the one record.
C10_SecondCallCreatesNothing ==
    (event.op = "entry" /\ event.query = "ok") =>
        /\ (event.pre = 0 /\ event.create = "ok")
              => (event.ret /\ db[event.link] = 1)
        /\ event.pre = 1
              => (~event.ret /\ event.create = "none" /\ db[event.link] = 1)

\* The second call for a link: the query finds the record of the first.
C10_Witness ==
    /\ event.op = "entry"
    /\ event.query = "ok"
    /\ event.pre = 1
    /\ ~event.ret
    /\ db[event.link] = 1

\* The messages of the batch in which extract_urls finds a url.
WithUrls == { n \in 1..Len(messages) : extract_urls(channel[messages[n]]) # <<>> }

\* C11: when the LLM call raises or answers with text that is no JSON, the
\* step of that job url ends without an exception, asks for the "warning"
\* reaction and leaves the database alone; the message's timestamp becomes the
\* cursor to save once its job urls are done, and the checkpoint a cycle saves
\* is not older than any message of its batch that went through the job loop.
C11_ExtractionFailureIsAWarning ==
    /\ [][(pc = "job" /\ event'.llm \in {"raise", "text"})
            => /\ event'.op = "no_details"
               /\ event'.reaction = "warning"
               /\ db' = db
               /\ pc' \in {"job", "loop", "save"}
               /\ Len(job_urls) = 1 => latest_ts' = <<event'.ts>>]_vars
    /\ []((pc = "sleep" /\ event.op = "saved")
            => \A n \in WithUrls : OldestOf(Persisted) >= messages[n])

\* The LLM failed on the last job url of the last message of a batch: the
\* cycle is at its save with that message's timestamp as the cursor.
C11_Witness ==
    /\ event.op = "no_details"
    /\ event.llm \in {"raise", "text"}
    /\ event.reaction = "warning"
    /\ pc = "save"
    /\ latest_ts = <<event.ts>>

\* C12: when the existence query finds a record with the resolved apply link,
\* pages.create is not called, no reaction ("white_check_mark" or "warning")
\* is asked for and the database is as it was; the message's timestamp is the
\* cursor to save once its job urls are done, and the checkpoint a cycle saves
\* is not older than any message of its batch that went through the job loop.
C12_DuplicateIsSkippedSilently ==
    /\ (event.op = "entry" /\ event.query = "ok" /\ event.pre >= 1)
          => /\ event.create = "none"
             /\ event.reaction = "none"
             /\ ~event.ret
             /\ db[event.link] = event.pre
             /\ pc \in {"job", "loop", "save"}
             /\ pc \in {"loop", "save"} => latest_ts = <<event.ts>>
    /\ (pc = "sleep" /\ event.op = "saved")
          => \A n \in WithUrls : messages[n] <= OldestOf(Persisted)

\* The last job url of the last message of a batch was found in the database:
\* the cycle is at its save with that message's timestamp as the cursor.
C12_Witness ==
    /\ event.op = "entry"
    /\ event.query = "ok"
    /\ event.pre >= 1
    /\ event.reaction = "none"
    /\ pc = "save"
    /\ latest_ts = <<event.ts>>

\* C13: when pages.create fails, create_notion_entry answers False and the
\* step ends without an exception: no "white_check_mark" reaction is asked
\* for, no record is added, and the loop goes on to the next job url of the
\* message, to the next message of the batch or to the save, the message's
\* timestamp being the cursor to save once its job urls are done; the
\* checkpoint a cycle saves is not older than any message of its batch that
\* went through the job loop.
C13_WriteFailureIsNotFatal ==
    /\ (event.op = "entry" /\ event.create = "raise")
          => /\ ~event.ret
             /\ event.reaction # "white_check_mark"
             /\ db[event.link] = event.pre
             /\ pc \in {"job", "loop", "save"}
             /\ pc = "job" => (job_urls # <<>> /\ messages[i] = event.ts)
             /\ pc = "loop" => (i <= Len(messages) /\ messages[i] > event.ts)
             /\ pc \in {"loop", "save"} => latest_ts = <<event.ts>>
    /\ (pc = "sleep" /\ event.op = "saved")
          => \A n \in WithUrls : ~(messages[n] > OldestOf(Persisted))

\* pages.create failed on a job url and the loop stands at the next message
\* of the batch.
C13_Witness ==
    /\ event.op = "entry"
    /\ event.create = "raise"
    /\ ~event.ret
    /\ pc = "loop"
    /\ i <= Len(messages)
    /\ latest_ts = <<event.ts>>

\* C14: the persisted checkpoint never decreases from cycle to cycle: when a
\* cycle is over, by a return or by an exception, the cursor persisted is not
\* older than the one persisted when the cycle started, in whatever order the
\* batch was delivered.
C14_CheckpointNeverDecreases ==
    pc = "sleep" =>
        OldestOf(Persisted) >= OldestOf(get_last_processed_ts(start_file))

\* C15: a step that asks for a reaction ends the same way whether reactions.add
\* succeeds or fails: it raises nothing, the database holds the record the
\* step created and no other change, the cursor to save is the message's
\* timestamp once its job urls are done, the checkpoint file is not touched,
\* and the save writes that cursor.
C15_ReactionFailureIsSwallowed ==
    /\ [][(pc = "job" /\ event'.reaction # "none")
            => /\ event'.ack \in {"ok", "raise"}
               /\ pc' \in {"job", "loop", "save"}
               /\ db' = IF event'.ret THEN [db EXCEPT ![event'.link] = @ + 1] ELSE db
               /\ latest_ts' = IF Len(job_urls) = 1 THEN <<messages[i]>> ELSE latest_ts
               /\ file' = file]_vars
    /\ [][event'.op = "saved" => file'.text = latest_ts]_vars

\* reactions.add failed for the record just created, and the cycle is at its
\* save.
C15_Witness ==
    /\ event.op = "entry"
    /\ event.ret
    /\ event.reaction = "white_check_mark"
    /\ event.ack = "raise"
    /\ db[event.link] = event.pre + 1
    /\ pc = "save"
    /\ latest_ts = <<event.ts>>

\* The members of a set of positions, in ascending order.
InOrder(S) ==
    CHOOSE s \in [1..Cardinality(S) -> S] :
        \A a, b \in 1..Cardinality(S) : a < b => s[a] < s[b]

\* The url-shaped substrings of a page, without their trailing periods.
UrlsFound(page) ==
    LET raw == plain_urls_from(page, 1, PageStop)
    IN  [n \in 1..Len(raw) |-> rstrip(raw[n])]

\* C16: of a message with urls, the job urls are its urls that are no post
\* url, in the order extracted, when there is one; when its urls are one post
\* url u, they are the job-board urls found in the page fetched for u, each
\* once, in the order of their first occurrence and without u, or u alone
\* when the page (an empty one included) holds none.
C16_JobUrlsOfAMessage ==
    event.op = "message" =>
        LET direct == SelectSeq(urls, LAMBDA v : ~IsLinkedInPost(v))
            u == urls[1]
            found == UrlsFound(linkedin_post_content)
            listed == { n \in 1..Len(found) : IsJobBoard(found[n]) /\ found[n] # u }
            First(v) == CHOOSE n \in listed :
                            found[n] = v /\ \A m \in listed : found[m] = v => n <= m
        IN  /\ direct # <<>> => job_urls = direct
            /\ (direct = <<>> /\ \A n \in 1..Len(urls) : urls[n] = u) =>
                  IF listed = {} THEN job_urls = <<u>>
                  ELSE /\ { job_urls[n] : n \in 1..Len(job_urls) }
                             = { found[n] : n \in listed }
                       /\ \A a, b \in 1..Len(job_urls) :
                             a < b => First(job_urls[a]) < First(job_urls[b])

\* A message links one post, and the page of the post embeds its own url and
\* two job-board urls, one of them twice.
C16_Witness ==
    /\ event.op = "message"
    /\ urls = <<P1>>
    /\ Len(UrlsFound(linkedin_post_content)) = 4
    /\ job_urls = <<J2, J1>>

\* What C17 calls a bracket link of a text: a "<" followed by a url, that is
\* a scheme and at least one character more, up to the "|" of a label or to
\* the ">".
BracketLinkAt(text, p) ==
    /\ text[p] = "<"
    /\ p + 2 <= Len(text)
    /\ text[p + 1] = Scheme
    /\ text[p + 2] \notin {">", "|"}

\* The url of the bracket link at p: what stands between the "<" and the
\* first "|" or ">" after it.
BracketUrl(text, p) ==
    LET ends == { e \in (p + 1)..Len(text) : text[e] \in {">", "|"} }
    IN  SubSeq(text, p + 1, (CHOOSE e \in ends : \A f \in ends : e <= f) - 1)

\* What C17 calls a bare token of a text: a scheme followed by at least one
\* character that is no whitespace, quote or bracket, and that is not itself
\* inside the token of an earlier scheme.
BareTokenAt(text, p) ==
    /\ text[p] = Scheme
    /\ p + 1 <= Len(text)
    /\ text[p + 1] \notin PlainStop
    /\ ~ \E q \in 1..(p - 1) :
            /\ text[q] = Scheme
            /\ \A k \in (q + 1)..p : text[k] \notin PlainStop

\* The bare token at p: up to the next whitespace, quote or bracket.
BareToken(text, p) ==
    LET ends == { e \in (p + 1)..(Len(text) + 1) :
                    e = Len(text) + 1 \/ text[e] \in PlainStop }
    IN  SubSeq(text, p, (CHOOSE e \in ends : \A f \in ends : e <= f) - 1)

\* C17: of a text with a bracket link, extract_urls returns the urls of the
\* bracket links in their order, with no bracket and no label in them, and no
\* bare url; of a text with none, the bare tokens in their order (a message
\* of which it returns nothing is skipped).
C17_BracketLinksFirst ==
    event.op \in {"message", "skip"} =>
        LET text == channel[event.ts]
            links == { p \in DOMAIN text : BracketLinkAt(text, p) }
            tokens == { p \in DOMAIN text : BareTokenAt(text, p) }
            got == IF event.op = "message" THEN urls ELSE <<>>
        IN  /\ Len(got) = IF links # {} THEN Cardinality(links) ELSE Cardinality(tokens)
            /\ \A n \in 1..Len(got) :
                  /\ links # {} => got[n] = BracketUrl(text, InOrder(links)[n])
                  /\ links = {} => got[n] = BareToken(text, InOrder(tokens)[n])
                  /\ links # {} => \A k \in 1..Len(got[n]) : got[n][k] \notin {"<", ">", "|"}

\* A text has a bracket link and a bare url after it: the link alone is
\* returned.
C17_Witness ==
    /\ event.op = "message"
    /\ Len(urls) = 1
    /\ \E p \in DOMAIN channel[1] : BracketLinkAt(channel[1], p)
    /\ \E p \in DOMAIN channel[1] :
          /\ BareTokenAt(channel[1], p)
          /\ p > 1
          /\ channel[1][p - 1] = ">"

\* The days of the months of year y.
DaysInMonth(y, m) ==
    IF m = 2
    THEN IF (y % 4 = 0 /\ y % 100 # 0) \/ y % 400 = 0 THEN 29 ELSE 28
    ELSE IF m \in {4, 6, 9, 11} THEN 30 ELSE 31

\* The leap years among the years 1 to y.
LeapYearsUpTo(y) == y \div 4 - y \div 100 + y \div 400

\* The days from 1970-01-01 to the date <<y, m, d>> of the Gregorian calendar,
\* counted year by year and month by month.
DayNumber(date) ==
    LET y == date[1]
        m == date[2]
        d == date[3]
        Before[k \in 1..12] == IF k = 1 THEN 0 ELSE Before[k-1] + DaysInMonth(y, k - 1)
    IN  365 * (y - 1970) + (LeapYearsUpTo(y - 1) - LeapYearsUpTo(1969)) + Before[m] + d - 1

\* C18: of a post url with the identifier X of a post made on day `day`
\* (X >> 22 is a millisecond of that day), decode_linkedin_activity_date
\* returns the calendar date of that day; of a post url with no identifier it
\* returns None.
C18_DateOfShiftedIdentifier ==
    (pc # "loop" /\ linkedin_post_url # NoUrl) =>
        IF activity_id_of(linkedin_post_url) = <<>>
        THEN event.op = "message" /\ linkedin_date = NoDate
        ELSE \A day \in Days, ms \in {0, SecondsPerDay * MsPerSecond - 1},
                low \in {0, ShiftDivisor - 1}, sep \in {":", "-"} :
                linkedin_post_url = ActivityUrl(day, ms, low, sep) =>
                    /\ event.op = "message"
                    /\ Len(linkedin_date) = 3
                    /\ linkedin_date[2] \in 1..12
                    /\ linkedin_date[3] \in 1..DaysInMonth(linkedin_date[1], linkedin_date[2])
                    /\ DayNumber(linkedin_date) = day

\* C19: of the urls of a message that are of post shape, the first is the one
\* kept as the post url, and as the source url.
C19_FirstPostUrlIsKept ==
    event.op = "message" =>
        LET posts == SelectSeq(urls, IsLinkedInPost)
        IN  posts # <<>> => (linkedin_post_url = posts[1] /\ source_url = posts[1])

\* C20: the apply link of a create_notion_entry call is never empty: it is the
\* link the LLM reported or, when it reported none, the job url; and a call
\* that issues pages.create, and so every record added to the database, has
\* made the existence query for that link before.
C20_EveryCreateIsChecked ==
    [][/\ event'.op = "entry" =>
            /\ pc = "job"
            /\ event'.link # NoUrl
            /\ event'.link = Head(job_urls) \/ event'.link \in ApplyLinks
            /\ event'.create # "none" => event'.query \in {"ok", "raise"}
       /\ db' # db =>
            /\ event'.op = "entry"
            /\ event'.query \in {"ok", "raise"}
            /\ event'.create = "ok"
            /\ db' = [db EXCEPT ![event'.link] = @ + 1]]_vars

\* The LLM reported no link for a job url found in a post: the record is
\* created with the job url as its link, after a query for it.
C20_Witness ==
    /\ event.op = "entry"
    /\ event.link = J2
    /\ event.query = "ok"
    /\ event.create = "ok"
    /\ event.pre = 0
    /\ db[J2] = 1

====
